---------------------------- MODULE Spec2Model ----------------------------
(***************************************************************************)
(* A model of manga.py: the page geometry (convert_page_to_target), the    *)
(* per-volume pipeline (process_volume_source, extract_images_from_zip)    *)
(* and the batch front end (MangaConverterGUI).                            *)
(*                                                                         *)
(* Strings are sequences of one-character strings, so that path parsing,   *)
(* suffix tests, natural sorting and the f"{idx:04d}.jpg" formatting are   *)
(* computed and not assumed.                                               *)
(***************************************************************************)
EXTENDS Integers, Sequences, FiniteSets, TLC

(***************************************************************************)
(* Characters and strings                                                  *)
(***************************************************************************)

\* The characters the model uses, in code-point order.
Alphabet ==
  << " ", "-", ".", "/", "0", "1", "2", "3", "4", "5", "6", "7", "8", "9",
     "G", "J", "P", "_",
     "a", "b", "c", "d", "e", "f", "g", "h", "i", "j", "k", "l", "m", "n",
     "o", "p", "q", "r", "s", "t", "u", "v", "w", "x", "y", "z" >>

Ord(c) == CHOOSE i \in 1..Len(Alphabet) : Alphabet[i] = c

Digits == <<"0", "1", "2", "3", "4", "5", "6", "7", "8", "9">>

IsDigit(c) == \E i \in 1..10 : Digits[i] = c

DigitVal(c) == (CHOOSE i \in 1..10 : Digits[i] = c) - 1

\* str.lower() on one character.
LowerChar(c) ==
  CASE c = "G" -> "g"
    [] c = "J" -> "j"
    [] c = "P" -> "p"
    [] OTHER -> c

Lower(s) == [i \in 1..Len(s) |-> LowerChar(s[i])]

\* Lexicographic order of two strings by code point (Python's str <).
RECURSIVE StrLess(_, _)
StrLess(a, b) ==
  IF b = <<>> THEN FALSE
  ELSE IF a = <<>> THEN TRUE
  ELSE IF a[1] # b[1] THEN Ord(a[1]) < Ord(b[1])
  ELSE StrLess(Tail(a), Tail(b))

\* The last index of character c in s, 0 when absent (str.rfind + 1).
RFind(s, c) ==
  IF \E i \in 1..Len(s) : s[i] = c
  THEN CHOOSE i \in 1..Len(s) : s[i] = c /\ \A j \in (i+1)..Len(s) : s[j] # c
  ELSE 0

(***************************************************************************)
(* pathlib.Path (POSIX flavour)                                            *)
(***************************************************************************)

\* s split at "/", empty and "." components dropped: the parts of Path(s)
\* below its root.
RECURSIVE SplitFrom(_, _, _)
SplitFrom(s, i, cur) ==
  LET keep == IF cur = <<>> \/ cur = <<".">> THEN <<>> ELSE <<cur>>
  IN  IF i > Len(s) THEN keep
      ELSE IF s[i] = "/" THEN keep \o SplitFrom(s, i + 1, <<>>)
      ELSE SplitFrom(s, i + 1, Append(cur, s[i]))

\* Path(s): whether it is absolute, and its components.
Path(s) ==
  [abs |-> (s # <<>> /\ s[1] = "/"), parts |-> SplitFrom(s, 1, <<>>)]

\* Path.name: the final component, "" when there is none.
PathName(p) == IF p.parts = <<>> THEN <<>> ELSE p.parts[Len(p.parts)]

\* Path.suffix: the final component's last dot and what follows it.
PathSuffix(p) ==
  LET name == PathName(p)
      i == RFind(name, ".")
  IN  IF 1 < i /\ i < Len(name) THEN SubSeq(name, i, Len(name)) ELSE <<>>

\* Path.stem: the final component without its suffix.
PathStem(p) ==
  LET name == PathName(p)
      i == RFind(name, ".")
  IN  IF 1 < i /\ i < Len(name) THEN SubSeq(name, 1, i - 1) ELSE name

RECURSIVE JoinParts(_)
JoinParts(parts) ==
  IF parts = <<>> THEN <<>>
  ELSE IF Len(parts) = 1 THEN parts[1]
  ELSE parts[1] \o <<"/">> \o JoinParts(Tail(parts))

\* str(Path): the normalised text of a path.
PathStr(p) ==
  IF p.abs THEN <<"/">> \o JoinParts(p.parts)
  ELSE IF p.parts = <<>> THEN <<".">>
  ELSE JoinParts(p.parts)

\* a / b: an absolute right operand replaces the left one.
PathJoin(a, b) ==
  IF b.abs THEN b ELSE [abs |-> a.abs, parts |-> a.parts \o b.parts]

\* Path.parent
PathParent(p) ==
  IF p.parts = <<>> THEN p
  ELSE [abs |-> p.abs, parts |-> SubSeq(p.parts, 1, Len(p.parts) - 1)]

ImageSuffixes ==
  { <<".", "j", "p", "g">>, <<".", "j", "p", "e", "g">>, <<".", "p", "n", "g">>,
    <<".", "w", "e", "b", "p">>, <<".", "b", "m", "p">>, <<".", "g", "i", "f">>,
    <<".", "t", "i", "f", "f">> }

is_image_file(p) == Lower(PathSuffix(p)) \in ImageSuffixes

ArchiveSuffixes == { <<".", "c", "b", "z">>, <<".", "z", "i", "p">> }


(***************************************************************************)
(* natsort.natsorted on strings (default algorithm: unsigned integers)     *)
(***************************************************************************)

\* The value of a run of decimal digits.
RECURSIVE DigitsValue(_, _)
DigitsValue(s, acc) ==
  IF s = <<>> THEN acc ELSE DigitsValue(Tail(s), acc * 10 + DigitVal(s[1]))

\* The length of the longest prefix of s whose characters are all digits
\* (wantDigit) or all non-digits.
RECURSIVE RunLen(_, _)
RunLen(s, wantDigit) ==
  IF s = <<>> \/ IsDigit(s[1]) # wantDigit THEN 0
  ELSE 1 + RunLen(Tail(s), wantDigit)

\* The natsort key of s: text and number tokens alternate, text first (an
\* empty text is put in front of a leading number).
RECURSIVE NatTokens(_, _)
NatTokens(s, wantDigit) ==
  IF s = <<>> THEN <<>>
  ELSE LET n == RunLen(s, wantDigit)
           rest == SubSeq(s, n + 1, Len(s))
           tok == IF wantDigit
                  THEN [num |-> TRUE, val |-> DigitsValue(SubSeq(s, 1, n), 0), text |-> <<>>]
                  ELSE [num |-> FALSE, val |-> 0, text |-> SubSeq(s, 1, n)]
       IN  <<tok>> \o NatTokens(rest, ~wantDigit)

NatKey(s) == NatTokens(s, FALSE)

\* Python's tuple order on two keys.
RECURSIVE KeyLess(_, _)
KeyLess(a, b) ==
  IF b = <<>> THEN FALSE
  ELSE IF a = <<>> THEN TRUE
  ELSE IF a[1] = b[1] THEN KeyLess(Tail(a), Tail(b))
  ELSE IF a[1].num THEN a[1].val < b[1].val
  ELSE StrLess(a[1].text, b[1].text)

NatLess(a, b) == KeyLess(NatKey(a), NatKey(b))

\* x put into the sorted sequence s behind every element not greater than it.
RECURSIVE InsertSorted(_, _)
InsertSorted(s, x) ==
  IF s = <<>> THEN <<x>>
  ELSE IF NatLess(x, s[1]) THEN <<x>> \o s
  ELSE <<s[1]>> \o InsertSorted(Tail(s), x)

\* natsorted(s): a stable sort by NatKey.
RECURSIVE natsorted(_)
natsorted(s) ==
  IF s = <<>> THEN <<>>
  ELSE InsertSorted(natsorted(SubSeq(s, 1, Len(s) - 1)), s[Len(s)])

(***************************************************************************)
(* convert_page_to_target: the geometry                                    *)
(***************************************************************************)

\* The largest source and target dimension the geometry checks enumerate.
MaxDim == 8

\* floor(n / d) for d > 0 (Python's //).
FloorDiv(n, d) == n \div d

\* int(round(a * (n / d))) as the code computes it, for a, n >= 0 and d > 0.
\* round() of a double goes to the nearest integer and, at an exact tie, to
\* the even neighbour; but the double product a * fl(n/d) can miss an exact
\* tie by one unit in the last place (7 * (29 / 14) is 14.500000000000002
\* and rounds to 15, not 14), so at a tie of the exact quotient either
\* neighbour can result.
RoundScaled(a, n, d) ==
  LET num == a * n
      f == num \div d
      r == 2 * (num % d)
  IN  IF r = d THEN {f, f + 1}
      ELSE IF r < d THEN {f}
      ELSE {f + 1}

\* Geometry without its step 2: the width is never checked.
GeometryHeightOnly(original_w, original_h, target_w, target_h) ==
  { [ w1 |-> w1, fallback |-> FALSE, new_w |-> w1, new_h |-> h1,
      paste_x |-> FloorDiv(target_w - w1, 2),
      paste_y |-> FloorDiv(target_h - h1, 2),
      raised |-> (w1 < 1 \/ h1 < 1) ] :
    <<w1, h1>> \in
      RoundScaled(original_w, target_h, original_h) \X
      RoundScaled(original_h, target_h, original_h) }

\* Steps 1 and 2 of convert_page_to_target and the paste offsets, for a
\* source of original_w x original_h: the set of results the code can
\* compute. resize raises ValueError when a dimension is below 1, so
\* raised marks the results with which the call fails.
Geometry(original_w, original_h, target_w, target_h) ==
  { LET fallback == w1 > target_w
        new_w == IF fallback THEN w2 ELSE w1
        new_h == IF fallback THEN h2 ELSE h1
    IN  [ w1 |-> w1, fallback |-> fallback, new_w |-> new_w, new_h |-> new_h,
          paste_x |-> FloorDiv(target_w - new_w, 2),
          paste_y |-> FloorDiv(target_h - new_h, 2),
          raised |-> (new_w < 1 \/ new_h < 1) ] :
    <<w1, h1, w2, h2>> \in
      RoundScaled(original_w, target_h, original_h) \X
      RoundScaled(original_h, target_h, original_h) \X
      RoundScaled(original_w, target_w, original_w) \X
      RoundScaled(original_h, target_w, original_w) }


(***************************************************************************)
(* The file system                                                         *)
(***************************************************************************)

DEFAULT_WIDTH == 1072

DEFAULT_HEIGHT == 1448

\* The most members of an input archive, and files of an input folder.
MaxPages == 3

VARIABLES
  fs,      \* the regular files: resolved absolute path (its parts) -> content
  dirs,    \* the directories: a set of resolved absolute paths
  zips,    \* the input archives: path -> the members, in namelist() order
  ntemp,   \* the number of scratch directories mkdtemp has made
  call,    \* per worker: the frame of its process_volume_source call
  inputs,  \* MangaConverterGUI.inputs
  batch,   \* per worker thread: the frame of its _run_batch call
  progress, \* the progress bar's value, a fraction
  faults,  \* the number of failures the environment has caused so far
  geo      \* the geometry check: its arguments and its result

vars == <<fs, dirs, zips, ntemp, call, inputs, batch, progress, faults, geo>>

\* The most failures of the environment (an unwritable output folder, a
\* file that cannot be unlinked) in one run.
MaxFaults == 1

\* The parts of an absolute path with its ".." components resolved, as the
\* operating system resolves them (".." of the root is the root).
RECURSIVE ResolveParts(_, _)
ResolveParts(parts, stack) ==
  IF parts = <<>> THEN stack
  ELSE IF parts[1] = <<".", ".">>
       THEN ResolveParts(Tail(parts),
                         IF stack = <<>> THEN <<>>
                         ELSE SubSeq(stack, 1, Len(stack) - 1))
       ELSE ResolveParts(Tail(parts), Append(stack, parts[1]))

Resolve(p) == ResolveParts(p.parts, <<>>)

\* q lies below the directory root.
Under(root, q) == Len(q) > Len(root) /\ SubSeq(q, 1, Len(root)) = root

\* Path.is_dir(), Path.is_file()
is_dir(p, d) == Resolve(p) \in d

is_file(p, f) == Resolve(p) \in DOMAIN f

\* str(n) for n >= 0.
RECURSIVE DecStr(_)
DecStr(n) ==
  IF n < 10 THEN <<Digits[n + 1]>>
  ELSE Append(DecStr(n \div 10), Digits[(n % 10) + 1])

\* The format specification 0<width>d.
ZeroPad(s, width) ==
  IF Len(s) >= width THEN s ELSE [i \in 1..(width - Len(s)) |-> "0"] \o s

\* f"{idx:04d}.jpg"
OutName(idx) == ZeroPad(DecStr(idx), 4) \o <<".", "j", "p", "g">>

\* tempfile.mkdtemp(prefix="manga_kindle_"): a fresh directory below /tmp;
\* the k-th call's random name is told apart by k.
TempDirOf(k) ==
  [abs |-> TRUE,
   parts |-> << <<"t", "m", "p">>,
                <<"m", "a", "n", "g", "a", "_", "k", "i", "n", "d", "l", "e", "_">>
                  \o DecStr(k) >>]

\* dest.parent.mkdir(parents=True, exist_ok=True) on the state st: every
\* missing ancestor is made; an ancestor that is a regular file raises.
RECURSIVE MkdirParents(_, _, _)
MkdirParents(d, k, st) ==
  IF k > Len(d.parts) THEN st
  ELSE LET r == ResolveParts(SubSeq(d.parts, 1, k), <<>>)
       IN  IF r \in DOMAIN st.fs THEN [st EXCEPT !.raised = TRUE]
           ELSE MkdirParents(d, k + 1, [st EXCEPT !.dirs = @ \cup {r}])

\* open(dest, 'wb') and out.write(data) on the state st: a directory at dest
\* raises; a file at dest is replaced.
WriteFile(dest, data, st) ==
  LET r == Resolve(dest)
  IN  IF r \in st.dirs THEN [st EXCEPT !.raised = TRUE]
      ELSE [st EXCEPT !.fs = (r :> data) @@ st.fs,
                      !.written = @ \cup {r}]

\* The members of namelist() that are image files, by name.
RECURSIVE ImageMembers(_)
ImageMembers(z) ==
  IF z = <<>> THEN <<>>
  ELSE (IF is_image_file(Path(z[1].name)) THEN <<z[1].name>> ELSE <<>>)
         \o ImageMembers(Tail(z))

\* z.open(m).read(): the data of the member named m.
MemberData(z, m) == z[CHOOSE i \in 1..Len(z) : z[i].name = m].data

\* The loop of extract_images_from_zip from its k-th member on.
RECURSIVE ExtractLoop(_, _, _, _, _)
ExtractLoop(z, members, extract_to, k, st) ==
  IF k > Len(members) \/ st.raised THEN st
  ELSE LET dest == PathJoin(extract_to, Path(members[k]))
           made == MkdirParents(PathParent(dest), 1, st)
           wrote == IF made.raised THEN made
                    ELSE WriteFile(dest, MemberData(z, members[k]), made)
       IN  ExtractLoop(z, members, extract_to, k + 1, wrote)

\* extract_images_from_zip(zip_path, extract_to) with the archive's members
\* z: the file system it leaves, whether it raised, the resolved paths it
\* wrote, and the paths it returns.
extract_images_from_zip(z, extract_to, f, d) ==
  LET members == natsorted(ImageMembers(z))
      st == ExtractLoop(z, members, extract_to, 1,
                        [fs |-> f, dirs |-> d, raised |-> FALSE, written |-> {}])
  IN  [fs |-> st.fs, dirs |-> st.dirs, raised |-> st.raised,
       written |-> st.written,
       paths |-> [k \in 1..Len(members) |-> PathJoin(extract_to, Path(members[k]))]]

\* A set of strings as a sequence (iterdir() gives no order).
RECURSIVE SetToSeq(_)
SetToSeq(S) ==
  IF S = {} THEN <<>>
  ELSE LET x == CHOOSE y \in S : TRUE IN <<x>> \o SetToSeq(S \ {x})

\* natural_sorted_images_in_folder(folder): the regular files directly in
\* the folder that are image files, sorted by their path text.
natural_sorted_images_in_folder(folder, f) ==
  LET root == Resolve(folder)
      imgs == { PathStr([abs |-> TRUE, parts |-> q]) :
                q \in { r \in DOMAIN f :
                          /\ Len(r) = Len(root) + 1
                          /\ Under(root, r)
                          /\ is_image_file([abs |-> TRUE, parts |-> r]) } }
      sorted == natsorted(SetToSeq(imgs))
  IN  [k \in 1..Len(sorted) |-> Path(sorted[k])]


(***************************************************************************)
(* process_volume_source                                                   *)
(***************************************************************************)

\* The worker threads the model tells apart.
MaxWorkers == 2

Workers == 1..MaxWorkers

NoPath == [abs |-> FALSE, parts |-> <<>>]

NoOutcome == [kind |-> "none", what |-> "", path |-> NoPath]

Returns(p) == [kind |-> "return", what |-> "", path |-> p]

Raises(what) == [kind |-> "raise", what |-> what, path |-> NoPath]

\* A worker with no call of process_volume_source in progress.
IdleCall ==
  [ pc |-> "idle", input_path |-> NoPath, output_folder |-> NoPath,
    options |-> [target_width |-> DEFAULT_WIDTH, target_height |-> DEFAULT_HEIGHT,
                 keep_temp |-> FALSE],
    tempdir |-> NoPath, work_images |-> <<>>, idx |-> 0, total |-> 0,
    processed_files |-> <<>>,
    pending |-> NoOutcome,   \* what the try block returned or raised
    result |-> NoOutcome,    \* what the caller sees
    reports |-> <<>>,        \* the values progress_callback was given
    attempts |-> <<>>,       \* per page attempt: what was read, and how it ended
    sources |-> <<>>,        \* per collected page: its content when collected
    extracted |-> {},        \* the paths extract_images_from_zip wrote
    cleanup |-> "none",      \* how the finally clause ended: kept, clean, failed
    log |-> <<>> ]           \* the lines given to logger

\* The frame of a call at its entry.
EnterCall(input_path, output_folder, options) ==
  [IdleCall EXCEPT !.pc = "mkdtemp", !.input_path = input_path,
                   !.output_folder = output_folder, !.options = options]

\* An image file's content: the source page it shows, its size, whether it
\* is undecodable, and whether a source or an output of the pipeline.
ImageData(src, w, h, bad) ==
  [made |-> "source", src |-> src, w |-> w, h |-> h, bad |-> bad, entries |-> <<>>]

\* out_im.save(...): the JPEG of the canvas made from the image data.
EncodedPage(data, options) ==
  [made |-> "output", src |-> data.src, w |-> options.target_width,
   h |-> options.target_height, bad |-> FALSE, entries |-> <<>>]

\* An archive file's content (it does not decode as an image).
ArchiveData(entries) ==
  [made |-> "archive", src |-> <<>>, w |-> 0, h |-> 0, bad |-> TRUE, entries |-> entries]

\* idx / total * 100, as the fraction num/den.
Percent(idx, total) == [num |-> idx * 100, den |-> total]

\* Line 109: tempdir = Path(tempfile.mkdtemp(prefix="manga_kindle_"))
PVS_Mkdtemp(w) ==
  /\ call[w].pc = "mkdtemp"
  /\ ntemp' = ntemp + 1
  /\ dirs' = dirs \cup {Resolve(TempDirOf(ntemp + 1))}
  /\ call' = [call EXCEPT ![w] = [@ EXCEPT !.pc = "collect",
                                            !.tempdir = TempDirOf(ntemp + 1)]]
  /\ UNCHANGED <<fs, zips, inputs, batch, progress, faults, geo>>

\* The content of the file at path p ("missing" content when there is none).
FileAt(p, f) ==
  IF Resolve(p) \in DOMAIN f THEN f[Resolve(p)] ELSE ImageData(<<>>, 0, 0, TRUE)

\* The frame once the images are collected, the files being f: an empty
\* list raises. sources keeps what each collected page held at this point.
Collected(c, images, written, lines, f) ==
  IF Len(images) = 0
  THEN [c EXCEPT !.pc = "cleanup", !.extracted = written, !.log = @ \o lines,
                 !.pending = Raises("No images found to process")]
  ELSE [c EXCEPT !.pc = "page", !.work_images = images, !.idx = 1,
                 !.total = Len(images), !.extracted = written, !.log = @ \o lines,
                 !.sources = [k \in 1..Len(images) |-> FileAt(images[k], f)]]

\* Lines 111-130 for the frame c on the files f, directories d and
\* archives z: the frame and the file system after the images of the input
\* are collected, or after the statement that raised.
Collect(c, f, d, z) ==
  LET p == c.input_path
  IN  IF is_dir(p, d)
      THEN [frame |-> Collected(c, natural_sorted_images_in_folder(p, f), {},
                                <<"Found">>, f),
            fs |-> f, dirs |-> d]
      ELSE IF Lower(PathSuffix(p)) \in ArchiveSuffixes
      THEN IF PathStr(p) \notin DOMAIN z
           THEN \* zipfile.ZipFile raises: no such archive
                [frame |-> [c EXCEPT !.pc = "cleanup", !.log = @ \o <<"Extracting">>,
                                     !.pending = Raises("cannot open archive")],
                 fs |-> f, dirs |-> d]
           ELSE LET x == extract_images_from_zip(z[PathStr(p)], c.tempdir, f, d)
                IN  [frame |-> IF x.raised
                               THEN [c EXCEPT !.pc = "cleanup",
                                              !.extracted = x.written,
                                              !.log = @ \o <<"Extracting">>,
                                              !.pending = Raises("cannot extract")]
                               ELSE Collected(c, x.paths, x.written,
                                              <<"Extracting", "Extracted">>, x.fs),
                     fs |-> x.fs, dirs |-> x.dirs]
      ELSE IF is_image_file(p)
      THEN [frame |-> Collected(c, <<p>>, {}, <<>>, f), fs |-> f, dirs |-> d]
      ELSE [frame |-> [c EXCEPT !.pc = "cleanup",
                                !.pending = Raises("Unsupported input type")],
            fs |-> f, dirs |-> d]

\* Lines 111-130: collect the images of the input.
PVS_Collect(w) ==
  /\ call[w].pc = "collect"
  /\ fs' = Collect(call[w], fs, dirs, zips).fs
  /\ dirs' = Collect(call[w], fs, dirs, zips).dirs
  /\ call' = [call EXCEPT ![w] = Collect(call[w], fs, dirs, zips).frame]
  /\ UNCHANGED <<zips, ntemp, inputs, batch, progress, faults, geo>>

\* AfterAttempt with the progress report inside the try statement: a
\* failed attempt goes on to the next page without a report.
AfterAttemptReportsSuccessOnly(c, ok, out_path, read) ==
  [c EXCEPT !.pc = IF ok THEN "report"
                   ELSE IF c.idx = c.total THEN "archive" ELSE "page",
            !.idx = IF ok THEN @ ELSE @ + 1,
            !.processed_files = IF ok THEN Append(@, out_path) ELSE @,
            !.attempts = Append(@, [idx |-> c.idx, ok |-> ok, read |-> read]),
            !.log = @ \o (IF ok THEN <<"Processing page">>
                          ELSE <<"Processing page", "ERROR processing">>)]

\* The frame after the try statement of one page attempt (lines 132-149):
\* a failure is logged and the loop goes on to the progress report.
AfterAttempt(c, ok, out_path, read) ==
  [c EXCEPT !.pc = "report",
            !.processed_files = IF ok THEN Append(@, out_path) ELSE @,
            !.attempts = Append(@, [idx |-> c.idx, ok |-> ok, read |-> read]),
            !.log = @ \o (IF ok THEN <<"Processing page">>
                          ELSE <<"Processing page", "ERROR processing">>)]

\* Lines 131-149: one page attempt: decode, transform, encode.
PVS_Page(w) ==
  /\ call[w].pc = "page"
  /\ LET c == call[w]
         img_path == Resolve(c.work_images[c.idx])
         decoded == img_path \in DOMAIN fs /\ ~fs[img_path].bad
         read == FileAt(c.work_images[c.idx], fs)
         out_path == PathJoin(c.tempdir, Path(OutName(c.idx)))
     IN  \E g \in IF decoded
                  THEN Geometry(read.w, read.h, c.options.target_width,
                                c.options.target_height)
                  ELSE {[raised |-> TRUE]} :
           LET ok == decoded /\ ~g.raised /\ Resolve(out_path) \notin dirs
           IN  /\ fs' = IF ok
                        THEN (Resolve(out_path) :> EncodedPage(read, c.options)) @@ fs
                        ELSE fs
               /\ call' = [call EXCEPT ![w] = AfterAttempt(c, ok, out_path, read)]
  /\ UNCHANGED <<dirs, zips, ntemp, inputs, batch, progress, faults, geo>>

\* Lines 155-157: output_folder / f"{input_path.stem} - kindle.cbz"
OutputPath(input_path, output_folder) ==
  PathJoin(output_folder,
           Path(PathStem(input_path)
                  \o <<" ", "-", " ", "k", "i", "n", "d", "l", "e",
                       ".", "c", "b", "z">>))

\* Lines 155-162: write the output archive; the write can fail (an
\* unwritable output folder), and fails when the path is a directory.
PVS_Archive(w) ==
  /\ call[w].pc = "archive"
  /\ LET c == call[w]
         output_path == OutputPath(c.input_path, c.output_folder)
         entries == [k \in 1..Len(c.processed_files) |->
                       [name |-> PathName(c.processed_files[k]),
                        data |-> fs[Resolve(c.processed_files[k])]]]
     IN  \E unwritable \in {FALSE} \cup {faults < MaxFaults} :
           IF unwritable \/ Resolve(output_path) \in dirs
           THEN /\ call' = [call EXCEPT ![w] =
                     [c EXCEPT !.pc = "cleanup",
                               !.pending = Raises("cannot write archive")]]
                /\ faults' = IF unwritable THEN faults + 1 ELSE faults
                /\ UNCHANGED fs
           ELSE /\ fs' = (Resolve(output_path) :> ArchiveData(entries)) @@ fs
                /\ call' = [call EXCEPT ![w] =
                     [c EXCEPT !.pc = "cleanup", !.log = Append(@, "Saved"),
                               !.pending = Returns(output_path)]]
                /\ UNCHANGED faults
  /\ UNCHANGED <<dirs, zips, ntemp, inputs, batch, progress, geo>>


\* update_progress(percent) of _run_batch (lines 345-347), for volume i of n:
\* overall = ((i-1)/n)*100 + percent / n, as a fraction.
update_progress(i, n, percent) ==
  [num |-> (i - 1) * 100 * percent.den + percent.num, den |-> n * percent.den]

\* Lines 151-152 and the loop's step: report idx / total * 100 to the
\* progress callback (which, in a batch, sets the progress bar), then go on
\* to the next page or leave the loop.
PVS_Report(w) ==
  /\ call[w].pc = "report"
  /\ LET c == call[w]
         percent == Percent(c.idx, c.total)
     IN  /\ call' = [call EXCEPT ![w] =
              [c EXCEPT !.reports = Append(@, percent),
                        !.idx = c.idx + 1,
                        !.pc = IF c.idx = c.total THEN "archive" ELSE "page"]]
         /\ progress' = IF batch[w].pc = "volume"
                        THEN update_progress(batch[w].i, Len(batch[w].inputs), percent)
                        ELSE progress
  /\ UNCHANGED <<fs, dirs, zips, ntemp, inputs, batch, faults, geo>>

\* Lines 165-176 of the frame c on the files f and directories d: the
\* files below tempdir are unlinked, then the directories below it and
\* tempdir itself removed. An unlink or the last rmdir can fail (k tells
\* where: after k unlinks, or not at all when k exceeds the number of files
\* by one); the failure ends the cleanup and is swallowed.
RemoveScratch(c, f, d, k) ==
  LET root == Resolve(c.tempdir)
      files == SetToSeq({r \in DOMAIN f : Under(root, r)})
      n == Len(files)
      gone == {files[j] : j \in 1..(IF k < n THEN k ELSE n)}
      f2 == [r \in (DOMAIN f) \ gone |-> f[r]]
  IN  IF k < n THEN [fs |-> f2, dirs |-> d]
      ELSE IF k = n THEN [fs |-> f2, dirs |-> {r \in d : ~Under(root, r)}]
      ELSE [fs |-> f2, dirs |-> {r \in d : ~Under(root, r) /\ r # root}]

\* Finally with the cleanup after the try block and not in a finally
\* clause: a call that raises cleans nothing up.
FinallyOnReturnOnly(c, f, d, k) ==
  IF c.options.keep_temp \/ c.pending.kind = "raise" THEN [fs |-> f, dirs |-> d]
  ELSE RemoveScratch(c, f, d, k)

\* The finally clause (lines 163-176): the cleanup, unless keep_temp is set.
Finally(c, f, d, k) ==
  IF c.options.keep_temp THEN [fs |-> f, dirs |-> d]
  ELSE RemoveScratch(c, f, d, k)

\* The number of places at which the cleanup of frame c can fail, plus one.
CleanupChoices(c, f) ==
  IF c.options.keep_temp THEN 0
  ELSE Cardinality({r \in DOMAIN f : Under(Resolve(c.tempdir), r)}) + 1

\* What the caller of process_volume_source sees once the finally clause
\* has run: the return value or the exception of the try block.
Outcome(c) == c.pending

\* How the finally clause of frame c ends when its failure choice is k.
CleanupEnd(c, f, k) ==
  IF c.options.keep_temp THEN "kept"
  ELSE IF k < CleanupChoices(c, f) THEN "failed"
  ELSE "clean"

\* Lines 163-176, and the return to the caller.
PVS_Cleanup(w) ==
  /\ call[w].pc = "cleanup"
  /\ \E k \in 0..CleanupChoices(call[w], fs) :
       LET after == Finally(call[w], fs, dirs, k)
           end == CleanupEnd(call[w], fs, k)
       IN  /\ end = "failed" => faults < MaxFaults
           /\ faults' = IF end = "failed" THEN faults + 1 ELSE faults
           /\ fs' = after.fs
           /\ dirs' = after.dirs
           /\ call' = [call EXCEPT ![w] =
                [@ EXCEPT !.pc = "done", !.result = Outcome(call[w]),
                          !.cleanup = end]]
  /\ UNCHANGED <<zips, ntemp, inputs, batch, progress, geo>>

(***************************************************************************)
(* One call of process_volume_source on an input drawn from a bounded set  *)
(***************************************************************************)

\* The names an input archive's members are drawn from, in archive order.
MemberCatalogue ==
  << <<"s", "/", "1", "0", ".", "p", "n", "g">>,
     <<"0", "0", "0", "1", ".", "j", "p", "g">>,
     <<"n", ".", "t", "x", "t">>,
     <<"s", "/", "9", ".", "J", "P", "G">>,
     <<"0", "0", "0", "0", ".", "j", "p", "g">>,
     <<".", ".", "/", "e", ".", "j", "p", "g">>,
     <<"/", "a", ".", "p", "n", "g">> >>

\* The names the files of an input folder are drawn from.
FolderCatalogue ==
  << <<"1", "0", ".", "p", "n", "g">>,
     <<"9", ".", "p", "n", "g">>,
     <<"n", ".", "t", "x", "t">> >>

PageKinds == {"good", "bad", "thin"}

\* A page image of the given kind: a readable 800x1200 page, an undecodable
\* file, or a readable page one pixel wide and 3000 high.
PageOfKind(src, kind) ==
  CASE kind = "good" -> ImageData(src, 800, 1200, FALSE)
    [] kind = "thin" -> ImageData(src, 1, 3000, FALSE)
    [] OTHER -> ImageData(src, 0, 0, TRUE)

\* The names of catalogue cat at the indices I, in catalogue order, each
\* with the content kinds[i].
RECURSIVE Pick(_, _, _, _)
Pick(cat, I, kinds, k) ==
  IF k > Len(cat) THEN <<>>
  ELSE (IF k \in I THEN <<[name |-> cat[k], data |-> PageOfKind(cat[k], kinds[k])]>>
        ELSE <<>>) \o Pick(cat, I, kinds, k + 1)

\* The contents an archive or a folder can have.
Contents(cat) ==
  UNION { { Pick(cat, I, kinds, 1) :
            kinds \in [1..Len(cat) ->
                         PageKinds] } :
          I \in { J \in SUBSET (1..Len(cat)) : Cardinality(J) <= MaxPages } }

InDir == <<"i", "n">>

OutFolder == [abs |-> TRUE, parts |-> << <<"o", "u", "t">> >>]

\* The directories every run starts with: /, /tmp, /in and /out.
BaseDirs == { <<>>, << <<"t", "m", "p">> >>, <<InDir>>, Resolve(OutFolder) }

ZipInput == <<"/", "i", "n", "/", "v", ".", "c", "b", "z">>

MissingZipInput == <<"/", "i", "n", "/", "m", ".", "z", "i", "p">>

FolderInput == <<"/", "i", "n", "/", "d">>

ImageInput == <<"/", "i", "n", "/", "p", ".", "p", "n", "g">>

OtherInput == <<"/", "i", "n", "/", "n", ".", "t", "x", "t">>

\* The files of folder with content z.
RECURSIVE FolderFiles(_, _)
FolderFiles(folder, z) ==
  IF z = <<>> THEN <<>>
  ELSE (Resolve(PathJoin(Path(folder), Path(z[1].name))) :> z[1].data)
         @@ FolderFiles(folder, Tail(z))

\* The inputs of the volume checks: the input path with the files,
\* directories and archives on disk.
VolumeWorlds ==
  { [input |-> ZipInput, fs |-> <<>>, dirs |-> BaseDirs, zips |-> (ZipInput :> z)] :
      z \in Contents(MemberCatalogue) }
  \cup
  { [input |-> FolderInput, fs |-> FolderFiles(FolderInput, z),
     dirs |-> BaseDirs \cup {Resolve(Path(FolderInput))}, zips |-> <<>>] :
      z \in Contents(FolderCatalogue) }
  \cup
  { [input |-> ImageInput,
     fs |-> (Resolve(Path(ImageInput)) :> PageOfKind(ImageInput, kind)),
     dirs |-> BaseDirs, zips |-> <<>>] : kind \in PageKinds }
  \cup
  { [input |-> OtherInput,
     fs |-> (Resolve(Path(OtherInput)) :> PageOfKind(OtherInput, "bad")),
     dirs |-> BaseDirs, zips |-> <<>>],
    [input |-> MissingZipInput, fs |-> <<>>, dirs |-> BaseDirs, zips |-> <<>>] }

NoBatch ==
  [pc |-> "unborn", inputs |-> <<>>, out_folder |-> NoPath,
   options |-> IdleCall.options, i |-> 0, attempted |-> <<>>, log |-> <<>>]

NoGeo == [pc |-> "none", original_w |-> 0, original_h |-> 0,
          target_w |-> 0, target_h |-> 0, out |-> <<>>]

ZeroProgress == [num |-> 0, den |-> 1]

\* Worker 1 enters process_volume_source on one input, with the default
\* geometry and either setting of keep_temp.
VolumeInit ==
  \E world \in VolumeWorlds, keep_temp \in BOOLEAN :
    /\ fs = world.fs
    /\ dirs = world.dirs
    /\ zips = world.zips
    /\ ntemp = 0
    /\ call = [w \in Workers |->
                 IF w = 1
                 THEN EnterCall(Path(world.input), OutFolder,
                                [IdleCall.options EXCEPT !.keep_temp = keep_temp])
                 ELSE IdleCall]
    /\ inputs = <<>>
    /\ batch = [w \in Workers |-> NoBatch]
    /\ progress = ZeroProgress
    /\ faults = 0
    /\ geo = NoGeo

VolumeNext ==
  \E w \in Workers :
    \/ PVS_Mkdtemp(w)
    \/ PVS_Collect(w)
    \/ PVS_Page(w)
    \/ PVS_Report(w)
    \/ PVS_Archive(w)
    \/ PVS_Cleanup(w)

SpecVolume == VolumeInit /\ [][VolumeNext]_vars

(***************************************************************************)
(* Claims about one call of process_volume_source                          *)
(***************************************************************************)

\* The page content cannot be decoded or cannot be transformed: the
\* attempt on it fails whatever else happens.
Corrupt(data, options) ==
  \/ data.bad
  \/ \A g \in Geometry(data.w, data.h, options.target_width, options.target_height) :
       g.raised

\* The names f"{i:04d}.jpg" of the indices i in k..n for which keep[i].
RECURSIVE NamesOf(_, _, _)
NamesOf(keep, k, n) ==
  IF k > n THEN <<>>
  ELSE (IF keep[k] THEN <<OutName(k)>> ELSE <<>>) \o NamesOf(keep, k + 1, n)

\* The entry names of the archive a returned call left at its output path.
ArchiveNames(c) ==
  LET a == fs[Resolve(c.result.path)]
  IN  [k \in 1..Len(a.entries) |-> a.entries[k].name]

Returned(c) == c.pc = "done" /\ c.result.kind = "return"

\* C1 (as claimed): when a call returns, the entries of its archive are
\* exactly the pages whose source is not corrupt: one entry named
\* f"{i:04d}.jpg" per such page i, in increasing i.
C1_EntriesAreNonCorruptPages ==
  \A w \in Workers :
    Returned(call[w]) =>
      ArchiveNames(call[w]) =
        NamesOf([i \in 1..call[w].total |->
                   ~Corrupt(call[w].sources[i], call[w].options)],
                1, call[w].total)

\* C2: the values given to the progress callback are 1/N*100, 2/N*100, ...
\* in this order, one after each page attempt and before the next attempt,
\* whether or not attempts failed; the attempts are pages 1, 2, ... in
\* order; and when the loop is left all N pages were attempted and the last
\* value reported is 100.
C2_ProgressAfterEveryAttempt ==
  \A w \in Workers :
    LET c == call[w]
        N == Len(c.work_images)
    IN  /\ \A k \in 1..Len(c.reports) :
             c.reports[k].num * N = k * 100 * c.reports[k].den
        /\ \A k \in 1..Len(c.attempts) : c.attempts[k].idx = k
        /\ c.pc = "page" => Len(c.reports) = Len(c.attempts)
        /\ c.pc = "report" => Len(c.attempts) = Len(c.reports) + 1
        /\ (N >= 1 /\ c.pc \in {"archive", "cleanup", "done"}) =>
             /\ Len(c.attempts) = N
             /\ Len(c.reports) = N
             /\ c.reports[N].num = 100 * c.reports[N].den

\* C2 witness: a call of three pages is over, an attempt before the last
\* one failed, and three values were reported.
C2_Witness ==
  \E w \in Workers :
    /\ call[w].pc = "done"
    /\ Len(call[w].attempts) = 3
    /\ ~call[w].attempts[2].ok
    /\ call[w].attempts[3].ok
    /\ Len(call[w].reports) = 3

\* Nothing is left of the scratch directory of frame c.
ScratchGone(c) ==
  /\ Resolve(c.tempdir) \notin dirs
  /\ \A r \in (DOMAIN fs) \cup dirs : ~Under(Resolve(c.tempdir), r)

\* C3 (as claimed): once a call has returned or raised, its scratch
\* directory and everything in it are gone unless keep_temp is set, the
\* directory is in place when keep_temp is set, and the caller sees what
\* the try block returned or raised.
C3_ScratchAlwaysRemoved ==
  \A w \in Workers :
    call[w].pc = "done" =>
      /\ ~call[w].options.keep_temp => ScratchGone(call[w])
      /\ call[w].options.keep_temp => Resolve(call[w].tempdir) \in dirs
      /\ call[w].result = call[w].pending

\* C3 (amended): as claimed, except that the scratch directory is gone only
\* when no step of the cleanup failed; when one failed, what is left stays
\* and the caller still sees what the try block returned or raised.
C3_ScratchRemovedUnlessCleanupFails ==
  \A w \in Workers :
    call[w].pc = "done" =>
      /\ (~call[w].options.keep_temp /\ call[w].cleanup # "failed")
           => ScratchGone(call[w])
      /\ call[w].options.keep_temp => Resolve(call[w].tempdir) \in dirs
      /\ call[w].result = call[w].pending
      /\ call[w].result.kind \in {"return", "raise"}

\* C3 witness: a call that made pages and then failed to write its archive
\* has raised, and its cleanup removed the scratch directory.
C3_Witness ==
  \E w \in Workers :
    /\ call[w].pc = "done"
    /\ ~call[w].options.keep_temp
    /\ call[w].cleanup = "clean"
    /\ call[w].processed_files # <<>>
    /\ call[w].result.kind = "raise"
    /\ ScratchGone(call[w])

\* C9 (as claimed): every attempt i decodes the content the i-th page had
\* when it was collected, so the page encoded at attempt i shows source
\* page i.
C9_AttemptReadsItsOwnPage ==
  \A w \in Workers :
    \A k \in 1..Len(call[w].attempts) :
      call[w].attempts[k].read = call[w].sources[k]

\* C10 (as claimed): every file extract_images_from_zip wrote lies below
\* the scratch directory of the call.
C10_ExtractionStaysInScratch ==
  \A w \in Workers :
    \A r \in call[w].extracted : Under(Resolve(call[w].tempdir), r)

(***************************************************************************)
(* convert_page_to_target on sizes drawn from a bounded set                *)
(***************************************************************************)

GeoInit ==
  /\ geo \in [pc : {"args"}, original_w : 1..MaxDim, original_h : 1..MaxDim,
              target_w : 1..MaxDim, target_h : 1..MaxDim, out : {<<>>}]
  /\ fs = <<>>
  /\ dirs = BaseDirs
  /\ zips = <<>>
  /\ ntemp = 0
  /\ call = [w \in Workers |-> IdleCall]
  /\ inputs = <<>>
  /\ batch = [w \in Workers |-> NoBatch]
  /\ progress = ZeroProgress
  /\ faults = 0

\* Lines 72-95 on the drawn sizes.
Convert ==
  /\ geo.pc = "args"
  /\ \E g \in Geometry(geo.original_w, geo.original_h, geo.target_w, geo.target_h) :
       geo' = [geo EXCEPT !.pc = "done", !.out = g]
  /\ UNCHANGED <<fs, dirs, zips, ntemp, call, inputs, batch, progress, faults>>

SpecGeom == GeoInit /\ [][Convert]_vars

\* C7: if the height-scaled width does not exceed the target width, the
\* height offset is 0 up to a residual of one pixel and the width offset is
\* not negative; otherwise the width fallback is taken, the width offset is
\* 0 and the height offset is not negative. Either way the scaled image is
\* neither wider nor taller than the target.
C7_OffsetsAndNoOverflow ==
  geo.pc = "done" =>
    LET o == geo.out
    IN  /\ o.w1 <= geo.target_w =>
             /\ ~o.fallback
             /\ o.paste_y \in -1..1
             /\ o.new_h - geo.target_h \in -1..1
             /\ o.paste_x >= 0
        /\ o.w1 > geo.target_w =>
             /\ o.fallback
             /\ o.paste_x = 0
             /\ o.paste_y >= 0
        /\ o.new_w <= geo.target_w
        /\ o.new_h <= geo.target_h

\* C7 witness: the fallback was taken and the page is padded above and
\* below.
C7_Witness ==
  /\ geo.pc = "done"
  /\ geo.out.fallback
  /\ geo.out.new_w = geo.target_w
  /\ geo.out.paste_y >= 1

\* C8 (as claimed): the dimensions given to resize are both at least 1, so
\* the call does not fail.
C8_ResizeDimensionsPositive ==
  geo.pc = "done" =>
    /\ geo.out.new_w >= 1
    /\ geo.out.new_h >= 1
    /\ ~geo.out.raised

(***************************************************************************)
(* MangaConverterGUI: the input list, start_convert and _run_batch         *)
(***************************************************************************)

FileA == <<"/", "i", "n", "/", "a", "/", "v", ".", "c", "b", "z">>

FileB == <<"/", "i", "n", "/", "b", ".", "z", "i", "p">>

FileN == <<"/", "i", "n", "/", "n", ".", "t", "x", "t">>

FolderV == <<"/", "i", "n", "/", "b", "/", "v">>

PageP == <<"p", ".", "p", "n", "g">>

\* The disk of the batch checks: the archive FileA of one page, the archive
\* FileB without an image, the text file FileN, and the folder FolderV of
\* one page.
BatchDisk ==
  [ fs |-> (Resolve(Path(FileN)) :> PageOfKind(FileN, "bad"))
           @@ FolderFiles(FolderV, << [name |-> PageP,
                                       data |-> PageOfKind(PageP, "good")] >>),
    dirs |-> BaseDirs \cup { <<InDir, <<"a">> >>, <<InDir, <<"b">> >>,
                            Resolve(Path(FolderV)) },
    zips |-> (FileA :> << [name |-> PageP, data |-> PageOfKind(PageP, "good")] >>)
             @@ (FileB :> << [name |-> <<"n", ".", "t", "x", "t">>,
                              data |-> PageOfKind(<<>>, "bad")] >>) ]

\* The files the file dialog returns, and what the folder dialog returns
\* (nothing when cancelled).
DialogFiles == {FileA}

DialogFolders == {<<>>, FolderV}

\* The most files chosen in one file dialog.
MaxChoices == 1

\* The most inputs of the batch a batch check starts with.
MaxQueue == 3

\* The sequences without repetition of at most n elements of S.
Queues(S, n) ==
  { q \in UNION { [1..k -> S] : k \in 0..n } :
      \A i, j \in 1..Len(q) : i # j => q[i] # q[j] }

\* The state after MangaConverterGUI.__init__, with the disk of the batch
\* checks.
Init ==
  /\ fs = BatchDisk.fs
  /\ dirs = BatchDisk.dirs
  /\ zips = BatchDisk.zips
  /\ ntemp = 0
  /\ call = [w \in Workers |-> IdleCall]
  /\ inputs = <<>>
  /\ batch = [w \in Workers |-> NoBatch]
  /\ progress = ZeroProgress
  /\ faults = 0
  /\ geo = NoGeo

\* Lines 283-287: the chosen files not yet listed are appended.
RECURSIVE AddChoices(_, _)
AddChoices(cur, choices) ==
  IF choices = <<>> THEN cur
  ELSE LET p == PathStr(Path(choices[1]))
       IN  AddChoices(IF \E i \in 1..Len(cur) : cur[i] = p THEN cur
                      ELSE Append(cur, p),
                      Tail(choices))

\* Lines 280-291: add_inputs with the dialogs' answers (folder is empty
\* when the folder dialog is cancelled).
add_inputs(choices, folder) ==
  /\ LET added == AddChoices(inputs, choices)
     IN  inputs' = IF folder # <<>> /\ ~\E i \in 1..Len(added) : added[i] = folder
                   THEN Append(added, folder)
                   ELSE added
  /\ UNCHANGED <<fs, dirs, zips, ntemp, call, batch, progress, faults, geo>>

\* s without the elements at the indices in sel.
RECURSIVE Without(_, _, _)
Without(s, sel, k) ==
  IF k > Len(s) THEN <<>>
  ELSE (IF k \in sel THEN <<>> ELSE <<s[k]>>) \o Without(s, sel, k + 1)

\* Lines 293-298: remove_selected with the selected rows sel.
remove_selected(sel) ==
  /\ sel # {}
  /\ inputs' = Without(inputs, sel, 1)
  /\ UNCHANGED <<fs, dirs, zips, ntemp, call, batch, progress, faults, geo>>

\* Lines 300-302
clear_list ==
  /\ inputs # <<>>
  /\ inputs' = <<>>
  /\ UNCHANGED <<fs, dirs, zips, ntemp, call, batch, progress, faults, geo>>

\* ensure_dir(p): p and its missing ancestors are made.
ensure_dir(p, d) ==
  d \cup { ResolveParts(SubSeq(p.parts, 1, k), <<>>) : k \in 0..Len(p.parts) }

\* The frame of a thread started on _run_batch(inputs, out_folder, options).
SpawnBatch(queue, out_folder, options) ==
  [NoBatch EXCEPT !.pc = "begin", !.inputs = queue, !.out_folder = out_folder,
                  !.options = options]

\* Lines 309-337: start_convert. With an empty list it only logs; else it
\* starts a new thread on a copy of the list (the device preset and the
\* settings are the defaults). The model has MaxWorkers threads to start.
start_convert ==
  IF inputs = <<>> THEN UNCHANGED vars
  ELSE /\ \E w \in Workers :
            /\ batch[w].pc = "unborn"
            /\ \A v \in 1..(w - 1) : batch[v].pc # "unborn"
            /\ batch' = [batch EXCEPT ![w] =
                 SpawnBatch(inputs, OutFolder, IdleCall.options)]
       /\ dirs' = ensure_dir(OutFolder, dirs)
       /\ UNCHANGED <<fs, zips, ntemp, call, inputs, progress, faults, geo>>

\* Lines 340-341
RB_Begin(w) ==
  /\ batch[w].pc = "begin"
  /\ progress' = ZeroProgress
  /\ batch' = [batch EXCEPT ![w] = [@ EXCEPT !.pc = "next", !.i = 1]]
  /\ UNCHANGED <<fs, dirs, zips, ntemp, call, inputs, faults, geo>>

\* Lines 342-349 and 353-354: the next input of the loop is logged and
\* process_volume_source entered on it; after the last one the progress bar
\* is filled and "All done." logged.
RB_Next(w) ==
  /\ batch[w].pc = "next"
  /\ LET b == batch[w]
     IN  IF b.i <= Len(b.inputs)
         THEN /\ batch' = [batch EXCEPT ![w] =
                   [b EXCEPT !.pc = "volume",
                             !.attempted = Append(@, b.inputs[b.i]),
                             !.log = Append(@, [line |-> "=== Processing", i |-> b.i])]]
              /\ call' = [call EXCEPT ![w] =
                   EnterCall(Path(b.inputs[b.i]), b.out_folder, b.options)]
              /\ UNCHANGED progress
         ELSE /\ batch' = [batch EXCEPT ![w] =
                   [b EXCEPT !.pc = "alldone",
                             !.log = Append(@, [line |-> "All done.", i |-> 0])]]
              /\ progress' = [num |-> 100, den |-> 1]
              /\ UNCHANGED call
  /\ UNCHANGED <<fs, dirs, zips, ntemp, inputs, faults, geo>>

\* AfterVolume without the except clause: an error of a volume ends the
\* thread.
AfterVolumePropagates(b, result) ==
  IF result.kind = "return"
  THEN [b EXCEPT !.pc = "next", !.i = b.i + 1,
                 !.log = Append(@, [line |-> "Done", i |-> b.i])]
  ELSE [b EXCEPT !.pc = "dead"]

\* The frame of _run_batch after process_volume_source ended with result
\* (lines 348-352): the result or the error is logged and the loop goes on.
AfterVolume(b, result) ==
  [b EXCEPT !.pc = "next", !.i = b.i + 1,
            !.log = Append(@, [line |-> IF result.kind = "return" THEN "Done"
                                         ELSE "ERROR processing",
                               i |-> b.i])]

\* Lines 348-352: process_volume_source has returned or raised.
RB_After(w) ==
  /\ batch[w].pc = "volume"
  /\ call[w].pc = "done"
  /\ batch' = [batch EXCEPT ![w] = AfterVolume(@, call[w].result)]
  /\ call' = [call EXCEPT ![w] = IdleCall]
  /\ UNCHANGED <<fs, dirs, zips, ntemp, inputs, progress, faults, geo>>

Next ==
  \/ \E choices \in Queues(DialogFiles, MaxChoices), folder \in DialogFolders :
       add_inputs(choices, folder)
  \/ \E sel \in SUBSET (1..Len(inputs)) : remove_selected(sel)
  \/ clear_list
  \/ start_convert
  \/ \E w \in Workers :
       \/ RB_Begin(w)
       \/ RB_Next(w)
       \/ RB_After(w)
       \/ PVS_Mkdtemp(w)
       \/ PVS_Collect(w)
       \/ PVS_Page(w)
       \/ PVS_Report(w)
       \/ PVS_Archive(w)
       \/ PVS_Cleanup(w)

Spec == Init /\ [][Next]_vars

\* One thread runs _run_batch on a list drawn from the files and the folder
\* on disk.
BatchInit ==
  /\ fs = BatchDisk.fs
  /\ dirs = BatchDisk.dirs
  /\ zips = BatchDisk.zips
  /\ ntemp = 0
  /\ call = [w \in Workers |-> IdleCall]
  /\ inputs = <<>>
  /\ \E queue \in Queues({FileA, FileB, FileN, FolderV}, MaxQueue) \ {<<>>} :
       batch = [w \in Workers |->
                  IF w = 1 THEN SpawnBatch(queue, OutFolder, IdleCall.options)
                  ELSE NoBatch]
  /\ progress = ZeroProgress
  /\ faults = 0
  /\ geo = NoGeo

\* A step of the thread w.
BatchStep(w) ==
  \/ RB_Begin(w)
  \/ RB_Next(w)
  \/ RB_After(w)
  \/ PVS_Mkdtemp(w)
  \/ PVS_Collect(w)
  \/ PVS_Page(w)
  \/ PVS_Report(w)
  \/ PVS_Archive(w)
  \/ PVS_Cleanup(w)

BatchNext == \E w \in Workers : BatchStep(w)

SpecBatch == BatchInit /\ [][BatchNext]_vars


(***************************************************************************)
(* Claims about the batch                                                  *)
(***************************************************************************)

\* The lines of log b that tell how volume k ended.
OutcomeLines(b, k) ==
  { j \in 1..Len(b.log) :
      b.log[j].i = k /\ b.log[j].line \in {"Done", "ERROR processing"} }

\* The thread w has a step to take: the guard of one of the actions of
\* BatchStep(w) holds (PVS_Cleanup can always end without a failure).
CanStep(w) ==
  \/ batch[w].pc \in {"begin", "next"}
  \/ /\ batch[w].pc = "volume"
     /\ call[w].pc \in {"mkdtemp", "collect", "page", "report", "archive",
                        "cleanup", "done"}

\* C4: a batch run attempts its inputs in list order, each once, whatever
\* the earlier volumes ended with: what it has attempted is a prefix of its
\* list, it can always take its next step until it has logged "All done.",
\* and by then it has attempted the whole list and logged one result or
\* error per volume.
C4_BatchAttemptsEveryVolume ==
  \A w \in Workers :
    LET b == batch[w]
        n == Len(b.inputs)
    IN  b.pc # "unborn" =>
          /\ Len(b.attempted) <= n
          /\ b.attempted = SubSeq(b.inputs, 1, Len(b.attempted))
          /\ \A k \in 1..n : Cardinality(OutcomeLines(b, k)) <= 1
          /\ IF b.pc = "alldone"
             THEN /\ b.attempted = b.inputs
                  /\ b.log[Len(b.log)] = [line |-> "All done.", i |-> 0]
                  /\ \A k \in 1..n : Cardinality(OutcomeLines(b, k)) = 1
             ELSE /\ CanStep(w)
                  /\ \A j \in 1..Len(b.log) : b.log[j].line # "All done."

\* C4 witness: a batch is done whose first volume failed and whose second
\* volume was converted.
C4_Witness ==
  \E w \in Workers :
    /\ batch[w].pc = "alldone"
    /\ \E j \in 1..Len(batch[w].log) :
         batch[w].log[j] = [line |-> "ERROR processing", i |-> 1]
    /\ \E j \in 1..Len(batch[w].log) :
         batch[w].log[j] = [line |-> "Done", i |-> 2]

\* A call of process_volume_source between its entry and the end of its
\* cleanup.
InFlight(c) == c.pc \notin {"idle", "done"}

\* C5 (as claimed): whatever the user does, at most one volume is between
\* the start of its processing and the end of its cleanup.
C5_OneVolumeAtATime ==
  Cardinality({w \in Workers : InFlight(call[w])}) <= 1

\* C6 (as claimed): two different inputs of a batch are written to
\* different output archive paths.
C6_DistinctOutputPaths ==
  \A w \in Workers :
    \A i, j \in 1..Len(batch[w].inputs) :
      batch[w].inputs[i] # batch[w].inputs[j] =>
        OutputPath(Path(batch[w].inputs[i]), batch[w].out_folder)
          # OutputPath(Path(batch[w].inputs[j]), batch[w].out_folder)

=============================================================================
